---------------------------- MODULE Spec2Model ----------------------------
(***************************************************************************)
(* Task graph and schedule reconciliation of stalker.models.task.          *)
(*                                                                         *)
(* Tasks live in an arena indexed by 1..MaxTasks; task ids are handed out  *)
(* in order by the constructor.  0 stands for Python's None.  The two      *)
(* relations of a Task (parent/children and depends/dependent_of) are      *)
(* SQLAlchemy relationships: a write to one side runs the @validates hook  *)
(* of that side first and, when the hook returns, updates both sides.      *)
(* Times are integers (ticks); datetime.timedelta arithmetic is integer    *)
(* arithmetic on ticks.                                                    *)
(***************************************************************************)
EXTENDS Integers, Sequences, FiniteSets, TLC

\* ------------------------------------------------------------------ bounds
MaxTasks == 3
MaxUsers == 2
MaxDepEdges == 3
MaxTime == 1
MaxEffort == 4
MaxCalls == 6
MaxAssigned == 2
MaxDateCalls == 2
MaxProjects == 2
MaxBookings == 2
MaxBookTime == 3
MaxMoved == 2

\* ------------------------------------------------------- program constants
\* datetime.datetime.max / datetime.datetime.min, the seeds of the container
\* start / end scans
DateMax == 99
DateMin == -99
\* datetime.timedelta(1), the smallest duration the date reconciliation
\* substitutes when end < start
OneDay == 2
\* defaults.DEFAULT_TASK_DURATION
DefaultDuration == 3

\* defaults.TASK_PRIORITY
TASK_PRIORITY == 500

None == 0
\* an argument that is an object of some other class than the one expected
Other == 0 - 1
\* the value of a column that was never written (priority)
Unset == 0 - 1
Ids == 1..MaxTasks
Users == 1..MaxUsers
Projects == 1..MaxProjects
BookingIds == 1..MaxBookings

VARIABLES
    ntasks,        \* number of Task objects constructed so far
    parent,        \* Task.parent        : id -> id or None
    children,      \* Task.children      : id -> sequence of ids
    depends,       \* Task.depends       : id -> sequence of ids
    dependent_of,  \* backref of depends : id -> set of ids
    resources,     \* Task.resources     : id -> set of users
    sched,         \* [_start, _end, _duration, _effort] : each id -> Int
    last,          \* the last call made and how it ended
    date_calls,    \* number of date reads and writes made so far (SpecDates)
    project,       \* Task._project     : id -> project or None
    is_milestone,  \* Task.is_milestone : id -> BOOLEAN
    priority,      \* Task.priority     : id -> Int, or Unset before the first write
    nbookings,     \* number of Booking objects created so far (refused ones too)
    booking,       \* Booking fields    : booking id -> [task, resource, start, end]
    user_bookings, \* User.bookings     : user -> sequence of booking ids
    task_bookings, \* Task.bookings     : id -> sequence of booking ids
    warned,        \* the warnings the last call emitted
    given          \* the further arguments of the last call

ledger == <<nbookings, booking, user_bookings, task_bookings>>

vars == <<ntasks, parent, children, depends, dependent_of, resources, sched,
          last, date_calls, project, priority, is_milestone, ledger, warned,
          given>>

Tasks == 1..ntasks

\* ----------------------------------------------------------------- helpers
Range(s) == {s[i] : i \in 1..Len(s)}

\* list.remove(x): drops the first occurrence of x
RemoveFirst(s, x) ==
    LET idx == {i \in 1..Len(s) : s[i] = x}
        k   == CHOOSE i \in idx : \A j \in idx : i <= j
    IN  IF idx = {} THEN s
        ELSE [i \in 1..(Len(s) - 1) |-> IF i < k THEN s[i] ELSE s[i + 1]]

Call(op, t, a, res, val) == [op |-> op, t |-> t, a |-> a, res |-> res, val |-> val]

\* --------------------------------------------------------- cycle detection
\* _check_circular_dependency(task, check_for_task, attr_name): a depth first
\* walk over rel (children or depends) from task, in list order, raising the
\* moment check_for_task is met.  The walk keeps no visited set: entering a
\* task whose own call is still on the call stack repeats that call for ever,
\* which Python ends with "maximum recursion depth exceeded".
RECURSIVE CheckFrom(_, _, _, _, _)
CheckFrom(rel, task, check_for_task, i, stack) ==
    IF i > Len(rel[task]) THEN "ok"
    ELSE LET dependent_task == rel[task][i] IN
         IF dependent_task = check_for_task THEN "CircularDependencyError"
         ELSE IF dependent_task \in stack THEN "RecursionError"
         ELSE LET r == CheckFrom(rel, dependent_task, check_for_task, 1,
                                 stack \cup {dependent_task})
              IN  IF r # "ok" THEN r
                  ELSE CheckFrom(rel, task, check_for_task, i + 1, stack)

check_circular_dependency(rel, task, check_for_task) ==
    CheckFrom(rel, task, check_for_task, 1, {task})

\* Task._validate_depends(self, key, depends)
validate_depends(self, dep) ==
    IF dep \in {None, Other} THEN "TypeError"
    ELSE check_circular_dependency(depends, dep, self)

\* Task._validate_parent(self, key, parent)
validate_parent(self, p) ==
    IF p = None THEN "ok"
    ELSE IF p = Other THEN "TypeError"
    ELSE check_circular_dependency(children, self, p)

\* ------------------------------------------------------ schedule (dates)
\* Task.is_container / Task.is_leaf
is_container(ch, t) == Len(ch[t]) # 0
is_leaf(ch, t) == Len(ch[t]) = 0

\* ScheduleMixin._validate_dates(start, end, duration): the date
\* reconciliation primitive.  known names the arguments that are not None.
\* It returns the triple it stores in _start, _end, _duration.
validate_dates(start, end, duration, known) ==
    LET d0 == IF "duration" \in known THEN duration ELSE DefaultDuration
        s1 == IF "start" \in known THEN start
              ELSE IF "end" \in known THEN end - d0 ELSE 0
        e1 == IF "end" \in known THEN end ELSE s1 + d0
        \* end < start: the duration, raised to one day when it is shorter (or
        \* was not given), replaces the end
        d1 == IF {"start", "end"} \subseteq known /\ "duration" \notin known
              THEN OneDay
              ELSE IF d0 < OneDay THEN OneDay ELSE d0
        e2 == IF e1 < s1 THEN s1 + d1 ELSE e1
    IN  [start |-> s1, end |-> e2, duration |-> e2 - s1]

StoreDates(s, t, x) ==
    [s EXCEPT ![t].start = x.start, ![t].end = x.end, ![t].duration = x.duration]

\* Task._start_getter: a container recomputes and STORES _start on every read,
\* scanning its children in list order from datetime.max; each child.start is
\* itself a read (evaluated once for the comparison, once more for the
\* assignment).  A task that is its own child re-enters its own getter for ever:
\* Python ends the read with RecursionError somewhere inside the deepest
\* re-entry, so the _start left behind is datetime.max or any running minimum
\* of the children scanned before the re-entry.  A scan returns
\* [s, val, ok, alts]: the store, the value read, whether the read returned,
\* and (when it did not) the stores it can leave behind.
StartLeftBehind(ch, s, t, i) ==
    LET RunMin(j) == LET vs == {s[ch[t][k]].start : k \in 1..j} \cup {DateMax}
                     IN  CHOOSE v \in vs : \A w \in vs : v <= w
    IN  {[s EXCEPT ![t].start = RunMin(j)] : j \in 0..(i - 1)}

RECURSIVE StartScan(_, _, _, _, _)
StartScan(ch, s, t, i, stack) ==
    IF Len(ch[t]) = 0 THEN [s |-> s, val |-> s[t].start, ok |-> TRUE, alts |-> {}]
    ELSE LET s0 == IF i = 1 THEN [s EXCEPT ![t].start = DateMax] ELSE s IN
         IF i > Len(ch[t])
         THEN [s |-> s0, val |-> s0[t].start, ok |-> TRUE, alts |-> {}]
         ELSE LET child == ch[t][i] IN
              IF child \in stack
              THEN [s |-> s0, val |-> 0, ok |-> FALSE,
                    alts |-> IF child = t THEN StartLeftBehind(ch, s0, t, i) ELSE {s0}]
              ELSE LET r1 == StartScan(ch, s0, child, 1, stack \cup {child}) IN
                   IF ~r1.ok THEN r1
                   ELSE IF r1.val < r1.s[t].start
                        THEN LET r2 == StartScan(ch, r1.s, child, 1, stack \cup {child})
                             IN  StartScan(ch, [r2.s EXCEPT ![t].start = r2.val],
                                           t, i + 1, stack)
                        ELSE StartScan(ch, r1.s, t, i + 1, stack)

start_getter(ch, s, t) == StartScan(ch, s, t, 1, {t})

\* Task._end_getter: the same scan from datetime.min with >
EndLeftBehind(ch, s, t, i) ==
    LET RunMax(j) == LET vs == {s[ch[t][k]].end : k \in 1..j} \cup {DateMin}
                     IN  CHOOSE v \in vs : \A w \in vs : v >= w
    IN  {[s EXCEPT ![t].end = RunMax(j)] : j \in 0..(i - 1)}

RECURSIVE EndScan(_, _, _, _, _)
EndScan(ch, s, t, i, stack) ==
    IF Len(ch[t]) = 0 THEN [s |-> s, val |-> s[t].end, ok |-> TRUE, alts |-> {}]
    ELSE LET s0 == IF i = 1 THEN [s EXCEPT ![t].end = DateMin] ELSE s IN
         IF i > Len(ch[t])
         THEN [s |-> s0, val |-> s0[t].end, ok |-> TRUE, alts |-> {}]
         ELSE LET child == ch[t][i] IN
              IF child \in stack
              THEN [s |-> s0, val |-> 0, ok |-> FALSE,
                    alts |-> IF child = t THEN EndLeftBehind(ch, s0, t, i) ELSE {s0}]
              ELSE LET r1 == EndScan(ch, s0, child, 1, stack \cup {child}) IN
                   IF ~r1.ok THEN r1
                   ELSE IF r1.val > r1.s[t].end
                        THEN LET r2 == EndScan(ch, r1.s, child, 1, stack \cup {child})
                             IN  EndScan(ch, [r2.s EXCEPT ![t].end = r2.val],
                                         t, i + 1, stack)
                        ELSE EndScan(ch, r1.s, t, i + 1, stack)

end_getter(ch, s, t) == EndScan(ch, s, t, 1, {t})

\* Task._duration_getter: the stored duration, for leaves and containers alike
duration_getter(s, t) == s[t].duration

\* len(self.resources), 0 counted as 1
num_of_resources(rs, t) == IF Cardinality(rs[t]) = 0 THEN 1 ELSE Cardinality(rs[t])

\* Task._effort_setter / Task._duration_setter call each other; the duration
\* setter stops the ping-pong when the effort it derives is the stored one.
\* Each returns [s, res, alts]; res is "RecursionError" when a date read inside
\* it never returns (alts: the stores that read can leave behind) or when the
\* two setters are still calling each other after MaxCalls rounds.
RECURSIVE effort_setter(_, _, _, _, _, _, _)
RECURSIVE duration_setter(_, _, _, _, _, _, _)
\* (mutation of duration_setter: the dates are stored, the effort is left as
\* it was)
duration_setter_keeps_effort(ch, rs, s, t, duration, isTimedelta, calls) ==
    LET rStart == start_getter(ch, s, t)
        rEnd   == end_getter(ch, rStart.s, t)
        x  == IF isTimedelta
              THEN validate_dates(rStart.val, 0, duration, {"start", "duration"})
              ELSE validate_dates(rStart.val, rEnd.val, 0, {"start", "end"})
    IN  [s |-> StoreDates(s, t, x), res |-> "ok", alts |-> {}]

\* (mutation of duration_setter: the effort is written back without first
\* comparing it with the stored one)
duration_setter_always_updates(ch, rs, s, t, duration, isTimedelta, calls) ==
    IF calls > MaxCalls THEN [s |-> s, res |-> "RecursionError", alts |-> {s}]
    ELSE
    LET rStart == start_getter(ch, s, t) IN
    IF ~rStart.ok THEN [s |-> rStart.s, res |-> "RecursionError", alts |-> rStart.alts]
    ELSE
    LET rEnd == IF isTimedelta
                THEN [s |-> rStart.s, val |-> 0, ok |-> TRUE, alts |-> {}]
                ELSE end_getter(ch, rStart.s, t)
    IN
    IF ~rEnd.ok THEN [s |-> rEnd.s, res |-> "RecursionError", alts |-> rEnd.alts]
    ELSE
    LET x  == IF isTimedelta
              THEN validate_dates(rStart.val, 0, duration, {"start", "duration"})
              ELSE validate_dates(rStart.val, rEnd.val, 0, {"start", "end"})
        s1 == StoreDates(rEnd.s, t, x)
        new_effort_value == s1[t].duration * num_of_resources(rs, t)
    IN  effort_setter(ch, rs, s1, t, new_effort_value, TRUE, calls + 1)

duration_setter(ch, rs, s, t, duration, isTimedelta, calls) ==
    IF calls > MaxCalls THEN [s |-> s, res |-> "RecursionError", alts |-> {s}]
    ELSE
    LET rStart == start_getter(ch, s, t) IN
    IF ~rStart.ok THEN [s |-> rStart.s, res |-> "RecursionError", alts |-> rStart.alts]
    ELSE
    LET rEnd == IF isTimedelta
                THEN [s |-> rStart.s, val |-> 0, ok |-> TRUE, alts |-> {}]
                ELSE end_getter(ch, rStart.s, t)
    IN
    IF ~rEnd.ok THEN [s |-> rEnd.s, res |-> "RecursionError", alts |-> rEnd.alts]
    ELSE
    LET x  == IF isTimedelta
              THEN validate_dates(rStart.val, 0, duration, {"start", "duration"})
              ELSE validate_dates(rStart.val, rEnd.val, 0, {"start", "end"})
        s1 == StoreDates(rEnd.s, t, x)
        new_effort_value == s1[t].duration * num_of_resources(rs, t)
    IN  IF s1[t].effort # new_effort_value
        THEN effort_setter(ch, rs, s1, t, new_effort_value, TRUE, calls + 1)
        ELSE [s |-> s1, res |-> "ok", alts |-> {}]

\* Task._validate_effort and Task._effort_setter
effort_setter(ch, rs, s, t, effort_in, isTimedelta, calls) ==
    LET n      == num_of_resources(rs, t)
        effort == IF isTimedelta THEN effort_in ELSE s[t].duration * n
        s1     == [s EXCEPT ![t].effort = effort]
    IN  duration_setter(ch, rs, s1, t, effort \div n, TRUE, calls + 1)

\* ------------------------------------------------------------------- state
NoSched == [start |-> 0, end |-> 0, duration |-> 0, effort |-> 0]
NoBooking == [task |-> None, resource |-> None, start |-> 0, end |-> 0]

Init ==
    /\ ntasks = 0
    /\ parent = [t \in Ids |-> None]
    /\ children = [t \in Ids |-> <<>>]
    /\ depends = [t \in Ids |-> <<>>]
    /\ dependent_of = [t \in Ids |-> {}]
    /\ resources = [t \in Ids |-> {}]
    /\ sched = [t \in Ids |-> NoSched]
    /\ last = Call("init", None, None, "ok", 0)
    /\ date_calls = 0
    /\ project = [t \in Ids |-> None]
    /\ is_milestone = [t \in Ids |-> FALSE]
    /\ priority = [t \in Ids |-> Unset]
    /\ nbookings = 0
    /\ booking = [b \in BookingIds |-> NoBooking]
    /\ user_bookings = [u \in Users |-> <<>>]
    /\ task_bookings = [t \in Ids |-> <<>>]
    /\ warned = {}
    /\ given = <<>>

DepEdges == LET RECURSIVE Sum(_)
                Sum(S) == IF S = {} THEN 0
                          ELSE LET x == CHOOSE y \in S : TRUE
                               IN  Len(depends[x]) + Sum(S \ {x})
            IN  Sum(Ids)

\* ------------------------------------------------------ dependency actions
\* task.depends.append(other): the validator runs first; when it returns,
\* other joins task.depends and the backref puts task in other.dependent_of
AddDependency(t, o) ==
    /\ t \in Tasks /\ o \in Tasks \cup {None, Other}
    /\ o \notin Range(depends[t])
    /\ DepEdges < MaxDepEdges
    /\ LET r == validate_depends(t, o) IN
       /\ last' = Call("addDependency", t, o, r, 0)
       /\ IF r = "ok"
          THEN /\ depends' = [depends EXCEPT ![t] = Append(@, o)]
               /\ dependent_of' = [dependent_of EXCEPT ![o] = @ \cup {t}]
          ELSE UNCHANGED <<depends, dependent_of>>
    /\ UNCHANGED <<ntasks, parent, children, resources, sched>>
    /\ UNCHANGED <<project, priority, is_milestone, ledger>> /\ warned' = {} /\ given' = <<>>

\* (mutation of RemoveDependency: the backref is not updated)
RemoveDependency_keeps_reverse(t, o) ==
    /\ t \in Tasks /\ o \in Range(depends[t])
    /\ depends' = [depends EXCEPT ![t] = RemoveFirst(@, o)]
    /\ last' = Call("removeDependency", t, o, "ok", 0)
    /\ UNCHANGED <<ntasks, parent, children, resources, sched, dependent_of>>
    /\ UNCHANGED <<project, priority, is_milestone, ledger>> /\ warned' = {} /\ given' = <<>>

\* task.depends.remove(other): no validator runs on removal
RemoveDependency(t, o) ==
    /\ t \in Tasks /\ o \in Range(depends[t])
    /\ depends' = [depends EXCEPT ![t] = RemoveFirst(@, o)]
    /\ dependent_of' = [dependent_of EXCEPT ![o] = @ \ {t}]
    /\ last' = Call("removeDependency", t, o, "ok", 0)
    /\ UNCHANGED <<ntasks, parent, children, resources, sched>>
    /\ UNCHANGED <<project, priority, is_milestone, ledger>> /\ warned' = {} /\ given' = <<>>

\* ------------------------------------------------------------ construction
\* Task.__init__(parent, depends, start, duration, effort, resources):
\* ScheduleMixin.__init__ reconciles the dates, self.parent = parent runs
\* _validate_parent and (through the backref) _validate_children on the
\* parent, self.depends = depends runs _validate_depends on every member,
\* self.resources = resources, then self.effort = effort drives the effort
\* and duration setters.  effortGiven is FALSE for effort=None.  A depends
\* member whose validation does not return ends the constructor with that
\* error; the arguments drawn here give a depends list only to a task without
\* a parent, so that nothing of the unfinished task is left behind.
DependsVerdict(self, deps) ==
    LET bad == {i \in 1..Len(deps) : validate_depends(self, deps[i]) # "ok"}
    IN  IF bad = {} THEN "ok"
        ELSE validate_depends(self, deps[CHOOSE i \in bad : \A j \in bad : i <= j])

\* (mutation of validates_project: a project that is not the parent's is
\* reported and then kept)
validates_project_keeps_given(p, proj) ==
    LET p1 == IF proj = None /\ p # None THEN project[p] ELSE proj IN
    IF proj = None /\ p = None
    THEN [res |-> "TypeError", val |-> None, warn |-> FALSE]
    ELSE IF p1 \notin Projects
    THEN [res |-> "TypeError", val |-> None, warn |-> FALSE]
    ELSE IF p # None /\ project[p] # p1
    THEN [res |-> "ok", val |-> p1, warn |-> TRUE]
    ELSE [res |-> "ok", val |-> p1, warn |-> FALSE]

\* (mutation of validates_project: with no project given, the parent's project
\* is looked up but not used)
validates_project_not_inherited(p, proj) ==
    IF proj = None /\ p = None
    THEN [res |-> "TypeError", val |-> None, warn |-> FALSE]
    ELSE IF proj = None
    THEN [res |-> "ok", val |-> None, warn |-> FALSE]
    ELSE IF proj \notin Projects
    THEN [res |-> "TypeError", val |-> None, warn |-> FALSE]
    ELSE IF p # None /\ project[p] # proj
    THEN [res |-> "ok", val |-> project[p], warn |-> TRUE]
    ELSE [res |-> "ok", val |-> proj, warn |-> FALSE]

\* Task._validates_project(self, key, project), run by self._project = project
\* after self.parent = p.  proj is None, a project, or Other (an object that is
\* no Project).  It returns the verdict, the value stored and whether the
\* RuntimeWarning about a project that is not the parent's was emitted.
validates_project(p, proj) ==
    LET p1 == IF proj = None /\ p # None THEN project[p] ELSE proj IN
    IF proj = None /\ p = None
    THEN [res |-> "TypeError", val |-> None, warn |-> FALSE]
    ELSE IF p1 \notin Projects
    THEN [res |-> "TypeError", val |-> None, warn |-> FALSE]
    ELSE IF p # None /\ project[p] # p1
    THEN [res |-> "ok", val |-> project[p], warn |-> TRUE]
    ELSE [res |-> "ok", val |-> p1, warn |-> FALSE]

\* int(x) of a float given in halves (n stands for n / 2): truncation toward 0
Trunc(n) == IF n >= 0 THEN n \div 2 ELSE 0 - ((0 - n) \div 2)

\* Task._validate_priority(self, key, priority).  The value written is
\*   [kind |-> "int",   n |-> i]   the integer i
\*   [kind |-> "float", n |-> h]   the float h / 2
\*   [kind |-> "str",   n |-> i]   the string of the decimal digits of i
\*   [kind |-> "text",  n |-> 0]   a string int() refuses (ValueError)
\*   [kind |-> "none",  n |-> 0]   None, or any object int() refuses (TypeError)
\*   [kind |-> "inf",   n |-> 0]   float('inf'): int() raises OverflowError,
\*                                 which the except clause does not name
validate_priority(p) ==
    IF p.kind = "inf" THEN [res |-> "OverflowError", val |-> Unset]
    ELSE LET converted == p.kind \in {"int", "float", "str"}
             asInt == IF p.kind = "float" THEN Trunc(p.n) ELSE p.n
             q == IF converted THEN asInt ELSE TASK_PRIORITY
         IN  [res |-> "ok",
              val |-> IF q < 0 THEN 0 ELSE IF q > 1000 THEN 1000 ELSE q]

DefaultPriority == [kind |-> "int", n |-> TASK_PRIORITY]

\* the project the tasks of the specifications about other attributes are
\* constructed with
AProject == CHOOSE q \in Projects : TRUE

ProjectWarning == [kind |-> "RuntimeWarning", other |-> None]

\* Task.__init__.  The statements run in this order: the dates, self.parent,
\* self._project, self.depends, self.resources, self.effort, self.priority.
\* When self._project raises, the parent assignment has already been made: the
\* unfinished task stays in p.children (with no project, no effort and no
\* priority) and p.resources was emptied; when self.effort raises, the
\* unfinished task has its project and resources too.  The arguments drawn give a depends
\* list or a priority that raises only to a task without a parent, where the
\* unfinished task is referenced by nothing and is dropped.
\* (mutation of init_resources: a milestone is given the resources passed)
init_resources_as_given(milestone, rs0) == rs0

\* the resources Task.__init__ assigns: "if self.is_milestone: resources =
\* None", and None stands for no resources
init_resources(milestone, rs0) == IF milestone THEN {} ELSE rs0

Task_init(proj, p, deps, start, duration, effort, effortGiven, rs0, prio, milestone) ==
    /\ ntasks < MaxTasks
    /\ p \in Tasks \cup {None}
    /\ Range(deps) \subseteq Tasks
    /\ deps = <<>> \/ p = None
    /\ LET self == ntasks + 1
           x    == validate_dates(start, 0, duration, {"start", "duration"})
           s1   == StoreDates(sched, self, x)
           ch1  == IF p = None THEN children
                   ELSE [children EXCEPT ![p] = Append(@, self)]
           rs1  == [(IF p = None THEN resources ELSE [resources EXCEPT ![p] = {}])
                      EXCEPT ![self] = init_resources(milestone, rs0)]
           pv   == validates_project(p, proj)
           dv   == DependsVerdict(self, deps)
           r    == effort_setter(ch1, rs1, s1, self, effort, effortGiven, 0)
           pr   == validate_priority(prio)
           res  == IF pv.res # "ok" THEN pv.res
                   ELSE IF dv # "ok" THEN dv
                   ELSE IF r.res # "ok" THEN r.res ELSE pr.res
       IN  /\ validate_parent(self, p) = "ok"
                  /\ last' = Call("construct", self, p, res, 0)
           /\ given' = [project |-> proj, priority |-> prio,
                        milestone |-> milestone, resources |-> rs0]
           /\ warned' = IF pv.warn THEN {ProjectWarning} ELSE {}
           /\ IF res = "ok"
              THEN /\ ntasks' = self
                   /\ parent' = [parent EXCEPT ![self] = p]
                   /\ children' = ch1
                   /\ project' = [project EXCEPT ![self] = pv.val]
                   /\ depends' = [depends EXCEPT ![self] = deps]
                   /\ dependent_of' = [o \in Ids |->
                                         IF o \in Range(deps)
                                         THEN dependent_of[o] \cup {self}
                                         ELSE dependent_of[o]]
                   /\ resources' = rs1
                   /\ sched' = r.s
                   /\ priority' = [priority EXCEPT ![self] = pr.val]
                   /\ is_milestone' = [is_milestone EXCEPT ![self] = milestone]
              ELSE IF pv.res # "ok" /\ p # None
              THEN /\ ntasks' = self
                   /\ parent' = [parent EXCEPT ![self] = p]
                   /\ children' = ch1
                   /\ resources' = [resources EXCEPT ![p] = {}]
                   /\ sched' = s1
                   /\ UNCHANGED <<project, depends, dependent_of, priority,
                                  is_milestone>>
              ELSE IF p # None
              THEN /\ ntasks' = self
                   /\ parent' = [parent EXCEPT ![self] = p]
                   /\ children' = ch1
                   /\ project' = [project EXCEPT ![self] = pv.val]
                   /\ is_milestone' = [is_milestone EXCEPT ![self] = milestone]
                   /\ resources' = rs1
                   /\ sched' \in r.alts
                   /\ UNCHANGED <<depends, dependent_of, priority>>
              ELSE UNCHANGED <<ntasks, parent, children, project, depends,
                               dependent_of, resources, sched, priority,
                               is_milestone>>
    /\ UNCHANGED ledger

\* Task(...) with is_milestone left at its default, False
NewTask(proj, p, deps, start, duration, effort, effortGiven, rs0, prio) ==
    Task_init(proj, p, deps, start, duration, effort, effortGiven, rs0, prio,
              FALSE)

\* (mutation of SetMilestone: the flag is stored, the resources are kept)
SetMilestone_keeps_resources(t, m) ==
    /\ t \in Tasks /\ m \in BOOLEAN
    /\ is_milestone' = [is_milestone EXCEPT ![t] = m]
    /\ last' = Call("setMilestone", t, None, "ok", 0)
    /\ given' = [milestone |-> m, resources |-> resources[t]]
    /\ warned' = {}
    /\ UNCHANGED <<ntasks, parent, children, depends, dependent_of, sched,
                   project, priority, ledger, resources>>

\* task.is_milestone = m, m any object (TRUE stands for a truthy one):
\* _validate_is_milestone replaces task.resources by an empty list when m is
\* truthy, and stores bool(m).  given.resources records the resources the
\* task had before the call.
SetMilestone(t, m) ==
    /\ t \in Tasks /\ m \in BOOLEAN
    /\ is_milestone' = [is_milestone EXCEPT ![t] = m]
    /\ resources' = IF m THEN [resources EXCEPT ![t] = {}] ELSE resources
    /\ last' = Call("setMilestone", t, None, "ok", 0)
    /\ given' = [milestone |-> m, resources |-> resources[t]]
    /\ warned' = {}
    /\ UNCHANGED <<ntasks, parent, children, depends, dependent_of, sched,
                   project, priority, ledger>>

\* task.project = q: the attribute is a synonym of _project whose descriptor
\* is a property with a getter only, so the assignment is refused
SetProject(t, q) ==
    /\ t \in Tasks /\ q \in Projects \cup {None, Other}
    /\ last' = Call("setProject", t, None, "AttributeError", 0)
    /\ given' = [project |-> q]
    /\ warned' = {}
    /\ UNCHANGED <<ntasks, parent, children, depends, dependent_of, resources,
                   sched, project, priority, is_milestone, ledger>>

\* task.priority = p
SetPriority(t, p) ==
    /\ t \in Tasks
    /\ LET pr == validate_priority(p) IN
       /\ last' = Call("setPriority", t, None, pr.res, 0)
       /\ given' = [priority |-> p]
       /\ priority' = IF pr.res = "ok" THEN [priority EXCEPT ![t] = pr.val]
                      ELSE priority
    /\ warned' = {}
    /\ UNCHANGED <<ntasks, parent, children, depends, dependent_of, resources,
                   sched, project, is_milestone, ledger>>

\* ------------------------------------------------------------ tree actions
\* (mutation of SetParent: the task stays in the children of the parent it
\* leaves)
SetParent_keeps_old_child(t, p) ==
    /\ t \in Tasks /\ p \in Tasks \cup {None, Other}
    /\ LET r   == validate_parent(t, p)
           old == parent[t]
           ch2 == IF p = None THEN children
                  ELSE [children EXCEPT ![p] = Append(@, t)]
       IN  /\ last' = Call("setParent", t, p, r, 0)
           /\ IF r = "ok" /\ old # p
              THEN /\ parent' = [parent EXCEPT ![t] = p]
                   /\ children' = ch2
                   /\ resources' = IF p = None THEN resources
                                   ELSE [resources EXCEPT ![p] = {}]
              ELSE UNCHANGED <<parent, children, resources>>
    /\ UNCHANGED <<ntasks, depends, dependent_of, sched>>
    /\ UNCHANGED <<project, priority, is_milestone, ledger>> /\ warned' = {} /\ given' = <<>>

\* (mutation of SetParent: the task moves to its new parent's project)
SetParent_adopts_project(t, p) ==
    /\ t \in Tasks /\ p \in Tasks \cup {None, Other}
    /\ LET r   == validate_parent(t, p)
           old == parent[t]
           ch1 == IF old = None THEN children
                  ELSE [children EXCEPT ![old] = RemoveFirst(@, t)]
           ch2 == IF p = None THEN ch1 ELSE [ch1 EXCEPT ![p] = Append(@, t)]
       IN  /\ last' = Call("setParent", t, p, r, 0)
           /\ IF r = "ok" /\ old # p
              THEN /\ parent' = [parent EXCEPT ![t] = p]
                   /\ children' = ch2
                   /\ resources' = IF p = None THEN resources
                                   ELSE [resources EXCEPT ![p] = {}]
                   /\ project' = IF p = None THEN project
                                 ELSE [project EXCEPT ![t] = project[p]]
              ELSE UNCHANGED <<parent, children, resources, project>>
    /\ UNCHANGED <<ntasks, depends, dependent_of, sched>>
    /\ UNCHANGED <<priority, is_milestone, ledger>> /\ warned' = {} /\ given' = <<>>

\* task.parent = p.  _validate_parent runs first and may raise; then the
\* backref takes task out of the old parent's children and appends it to p's,
\* and that append runs p._validate_children, which empties p.resources.
\* Assigning the parent the task already has changes nothing (the backref
\* sees old is new and stops).
SetParent(t, p) ==
    /\ t \in Tasks /\ p \in Tasks \cup {None, Other}
    /\ LET r   == validate_parent(t, p)
           old == parent[t]
           ch1 == IF old = None THEN children
                  ELSE [children EXCEPT ![old] = RemoveFirst(@, t)]
           ch2 == IF p = None THEN ch1 ELSE [ch1 EXCEPT ![p] = Append(@, t)]
       IN  /\ last' = Call("setParent", t, p, r, 0)
           /\ IF r = "ok" /\ old # p
              THEN /\ parent' = [parent EXCEPT ![t] = p]
                   /\ children' = ch2
                   /\ resources' = IF p = None THEN resources
                                   ELSE [resources EXCEPT ![p] = {}]
              ELSE UNCHANGED <<parent, children, resources>>
    /\ UNCHANGED <<ntasks, depends, dependent_of, sched>>
    /\ UNCHANGED <<project, priority, is_milestone, ledger>> /\ warned' = {} /\ given' = <<>>

\* p.children.remove(c): the backref resets c.parent; no validator runs
RemoveChild(p, c) ==
    /\ p \in Tasks /\ c \in Range(children[p])
    /\ children' = [children EXCEPT ![p] = RemoveFirst(@, c)]
    /\ parent' = [parent EXCEPT ![c] = None]
    /\ last' = Call("removeChild", p, c, "ok", 0)
    /\ UNCHANGED <<ntasks, depends, dependent_of, resources, sched>>
    /\ UNCHANGED <<project, priority, is_milestone, ledger>> /\ warned' = {} /\ given' = <<>>

\* -------------------------------------------------------- resource actions
\* (mutation of validate_resources: the type is not checked)
validate_resources_unchecked(resource) == "ok"

\* Task._validate_resources(self, key, resource): only the type is checked
validate_resources(resource) ==
    IF resource \in Users THEN "ok" ELSE "TypeError"

\* task.resources.append(user)
AddResource(t, u) ==
    /\ t \in Tasks /\ u \in (Users \cup {None, Other}) \ resources[t]
    /\ LET r == validate_resources(u) IN
       /\ resources' = IF r = "ok" THEN [resources EXCEPT ![t] = @ \cup {u}]
                       ELSE resources
       /\ last' = Call("addResource", t, u, r, 0)
    /\ UNCHANGED <<ntasks, parent, children, depends, dependent_of, sched>>
    /\ UNCHANGED <<project, priority, is_milestone, ledger>> /\ warned' = {} /\ given' = <<>>

\* task.resources.remove(user)
RemoveResource(t, u) ==
    /\ t \in Tasks /\ u \in resources[t]
    /\ resources' = [resources EXCEPT ![t] = @ \ {u}]
    /\ last' = Call("removeResource", t, u, "ok", 0)
    /\ UNCHANGED <<ntasks, parent, children, depends, dependent_of, sched>>
    /\ UNCHANGED <<project, priority, is_milestone, ledger>> /\ warned' = {} /\ given' = <<>>

\* task.resources = list of users
AssignResources(t, us) ==
    /\ t \in Tasks /\ us \subseteq Users /\ us # resources[t]
    /\ resources' = [resources EXCEPT ![t] = us]
    /\ last' = Call("assignResources", t, Cardinality(us), "ok", 0)
    /\ UNCHANGED <<ntasks, parent, children, depends, dependent_of, sched>>
    /\ UNCHANGED <<project, priority, is_milestone, ledger>> /\ warned' = {} /\ given' = <<>>

\* -------------------------------------------------------- schedule actions
\* task.effort = e
SetEffort(t, e) ==
    /\ t \in Tasks
    /\ LET r == effort_setter(children, resources, sched, t, e, TRUE, 0) IN
       /\ last' = Call("setEffort", t, e, r.res, 0)
       /\ IF r.res = "ok" THEN sched' = r.s ELSE sched' \in r.alts
    /\ UNCHANGED <<ntasks, parent, children, depends, dependent_of, resources>>
    /\ UNCHANGED <<project, priority, is_milestone, ledger>> /\ warned' = {} /\ given' = <<>>

\* task.duration = d
SetDuration(t, d) ==
    /\ t \in Tasks
    /\ LET r == duration_setter(children, resources, sched, t, d, TRUE, 0) IN
       /\ last' = Call("setDuration", t, d, r.res, 0)
       /\ IF r.res = "ok" THEN sched' = r.s ELSE sched' \in r.alts
    /\ UNCHANGED <<ntasks, parent, children, depends, dependent_of, resources>>
    /\ UNCHANGED <<project, priority, is_milestone, ledger>> /\ warned' = {} /\ given' = <<>>

\* task.effort = None (or any value that is no timedelta): the effort is taken
\* from the duration and the resources
SetEffortNone(t) ==
    /\ t \in Tasks
    /\ LET r == effort_setter(children, resources, sched, t, 0, FALSE, 0) IN
       /\ last' = Call("setEffortNone", t, None, r.res, 0)
       /\ IF r.res = "ok" THEN sched' = r.s ELSE sched' \in r.alts
    /\ UNCHANGED <<ntasks, parent, children, depends, dependent_of, resources>>
    /\ UNCHANGED <<project, priority, is_milestone, ledger>> /\ warned' = {} /\ given' = <<>>

\* task.duration = None (or any value that is no timedelta): the duration is
\* taken from start and end
SetDurationNone(t) ==
    /\ t \in Tasks
    /\ LET r == duration_setter(children, resources, sched, t, 0, FALSE, 0) IN
       /\ last' = Call("setDurationNone", t, None, r.res, 0)
       /\ IF r.res = "ok" THEN sched' = r.s ELSE sched' \in r.alts
    /\ UNCHANGED <<ntasks, parent, children, depends, dependent_of, resources>>
    /\ UNCHANGED <<project, priority, is_milestone, ledger>> /\ warned' = {} /\ given' = <<>>

\* (mutation of SetStart: the write is stored on a container as on a leaf, and
\* the dates of its children are moved along with it)
SetStart_moves_children(t, v) ==
    /\ t \in Tasks
    /\ LET x == validate_dates(v, sched[t].end, sched[t].duration,
                               {"start", "end", "duration"})
           s1 == StoreDates(sched, t, x)
       IN  sched' = [u \in Ids |-> IF u \in Range(children[t]) /\ u # t
                                    THEN [s1[u] EXCEPT !.start = x.start]
                                    ELSE s1[u]]
    /\ last' = Call("setStart", t, v, "ok", 0)
    /\ UNCHANGED <<ntasks, parent, children, depends, dependent_of, resources>>
    /\ UNCHANGED <<project, priority, is_milestone, ledger>> /\ warned' = {} /\ given' = <<>>

\* Task._start_setter: task.start = v; a container ignores the write
SetStart(t, v) ==
    /\ t \in Tasks
    /\ sched' = IF is_leaf(children, t)
                THEN StoreDates(sched, t,
                         validate_dates(v, sched[t].end, sched[t].duration,
                                        {"start", "end", "duration"}))
                ELSE sched
    /\ last' = Call("setStart", t, v, "ok", 0)
    /\ UNCHANGED <<ntasks, parent, children, depends, dependent_of, resources>>
    /\ UNCHANGED <<project, priority, is_milestone, ledger>> /\ warned' = {} /\ given' = <<>>

\* Task._end_setter: task.end = v; a container ignores the write
SetEnd(t, v) ==
    /\ t \in Tasks
    /\ sched' = IF is_leaf(children, t)
                THEN StoreDates(sched, t,
                         validate_dates(sched[t].start, v, sched[t].duration,
                                        {"start", "end", "duration"}))
                ELSE sched
    /\ last' = Call("setEnd", t, v, "ok", 0)
    /\ UNCHANGED <<ntasks, parent, children, depends, dependent_of, resources>>
    /\ UNCHANGED <<project, priority, is_milestone, ledger>> /\ warned' = {} /\ given' = <<>>

\* reading task.start
ReadStart(t) ==
    /\ t \in Tasks
    /\ LET r == start_getter(children, sched, t) IN
       IF r.ok THEN /\ sched' = r.s
                    /\ last' = Call("readStart", t, None, "ok", r.val)
       ELSE /\ sched' \in r.alts
            /\ last' = Call("readStart", t, None, "RecursionError", 0)
    /\ UNCHANGED <<ntasks, parent, children, depends, dependent_of, resources>>
    /\ UNCHANGED <<project, priority, is_milestone, ledger>> /\ warned' = {} /\ given' = <<>>

\* reading task.end
ReadEnd(t) ==
    /\ t \in Tasks
    /\ LET r == end_getter(children, sched, t) IN
       IF r.ok THEN /\ sched' = r.s
                    /\ last' = Call("readEnd", t, None, "ok", r.val)
       ELSE /\ sched' \in r.alts
            /\ last' = Call("readEnd", t, None, "RecursionError", 0)
    /\ UNCHANGED <<ntasks, parent, children, depends, dependent_of, resources>>
    /\ UNCHANGED <<project, priority, is_milestone, ledger>> /\ warned' = {} /\ given' = <<>>

\* ---------------------------------------------------------- booking ledger
\* (mutation of overbooked: the test for equal ends is left out)
overbooked_without_equal_ends(booking_start, booking_end, self_start, self_end) ==
    \/ booking_start = self_start
    \/ (self_end > booking_start /\ self_end < booking_end)
    \/ (self_start > booking_start /\ self_start < booking_end)

\* (mutation of overbooked: the start may also fall on the end of the
\* existing booking)
overbooked_closed_end(booking_start, booking_end, self_start, self_end) ==
    \/ booking_start = self_start
    \/ booking_end = self_end
    \/ (self_end > booking_start /\ self_end < booking_end)
    \/ (self_start > booking_start /\ self_start <= booking_end)

\* the overbooking test of Booking._validate_resource, for one existing
\* booking of the resource (booking) and the one being constructed (self)
overbooked(booking_start, booking_end, self_start, self_end) ==
    \/ booking_start = self_start
    \/ booking_end = self_end
    \/ (self_end > booking_start /\ self_end < booking_end)
    \/ (self_start > booking_start /\ self_start < booking_end)

\* (mutation of Booking_validate_task: the type check is left out)
Booking_validate_task_unchecked(task) == "ok"

\* Booking._validate_task: task is a task id, None or Other
Booking_validate_task(task) == IF task \in Tasks THEN "ok" ELSE "TypeError"

OverBookedWarning(b) == [kind |-> "OverBookedWarning", other |-> b]

\* (mutation of Booking_validate_resource: an overbooking is raised as an
\* error)
Booking_validate_resource_raises(resource, self_start, self_end) ==
    LET flagged == IF resource \notin Users THEN {}
                   ELSE {c \in Range(user_bookings[resource]) :
                            overbooked(booking[c].start, booking[c].end,
                                       self_start, self_end)}
    IN  IF resource \notin Users THEN [res |-> "TypeError", warn |-> {}]
        ELSE IF flagged # {}
        THEN [res |-> "OverBookedWarning", warn |-> {}]
        ELSE [res |-> "ok", warn |-> {}]

\* Booking._validate_resource: resource is a user, None or Other.  The type
\* checks come first; the scan of resource.bookings warns once for every
\* booking the test flags and raises nothing.
Booking_validate_resource(resource, self_start, self_end) ==
    IF resource \notin Users THEN [res |-> "TypeError", warn |-> {}]
    ELSE [res |-> "ok",
          warn |-> {OverBookedWarning(b) : b \in
                      {c \in Range(user_bookings[resource]) :
                          overbooked(booking[c].start, booking[c].end,
                                     self_start, self_end)}}]

\* (mutation of Booking_dates: the arguments are kept as passed)
Booking_dates_as_passed(start, end, duration, known) ==
    [start |-> start, end |-> end, duration |-> duration]

\* the dates of a new booking when its task and resource are assigned:
\* Booking.__init__ hands start, end and duration to ScheduleMixin.__init__
\* first (known: the arguments that are not None)
Booking_dates(start, end, duration, known) ==
    validate_dates(start, end, duration, known)

\* Booking.__init__(task, resource, start, end): ScheduleMixin.__init__
\* reconciles the dates, self.task = task runs _validate_task and (through
\* back_populates) appends the booking to task.bookings, self.resource =
\* resource runs _validate_resource and appends it to resource.bookings.
\* When the resource is refused the booking is already in task.bookings; when
\* the task is refused the new object is referenced by nothing (its id stays
\* unused in every list).
\* Warnings are emitted under Python's default filter: they raise nothing.
Booking_init(task, resource, start, end, duration, known) ==
    /\ nbookings < MaxBookings
    /\ task \in Tasks \cup {None, Other}
    /\ resource \in Users \cup {None, Other}
    /\ LET self == nbookings + 1
           x    == Booking_dates(start, end, duration, known)
           tv   == Booking_validate_task(task)
           rv   == Booking_validate_resource(resource, x.start, x.end)
           res  == IF tv # "ok" THEN tv ELSE rv.res
           rec  == [task |-> task, resource |-> None,
                    start |-> x.start, end |-> x.end]
       IN  /\ last' = Call("book", task, resource, res, self)
           /\ given' = [start |-> start, end |-> end, duration |-> duration,
                        known |-> known]
           /\ warned' = IF res = "ok" THEN rv.warn ELSE {}
           /\ nbookings' = self
           /\ IF tv # "ok"
              THEN UNCHANGED <<booking, user_bookings, task_bookings>>
              ELSE /\ task_bookings' = [task_bookings EXCEPT ![task] = Append(@, self)]
                   /\ IF rv.res # "ok"
                      THEN /\ booking' = [booking EXCEPT ![self] = rec]
                           /\ UNCHANGED user_bookings
                      ELSE /\ booking' = [booking EXCEPT ![self] =
                                             [rec EXCEPT !.resource = resource]]
                           /\ user_bookings' = [user_bookings EXCEPT
                                                  ![resource] = Append(@, self)]
    /\ UNCHANGED <<ntasks, parent, children, depends, dependent_of, resources,
                   sched, project, priority, is_milestone>>

\* Booking(task, resource, start, end), no duration passed
NewBooking(task, resource, start, end) ==
    Booking_init(task, resource, start, end, 0, {"start", "end"})

\* ---------------------------------------------------------- specifications
\* date reads and writes are counted against MaxDateCalls; nothing else is
Counted(A) == date_calls < MaxDateCalls /\ A /\ date_calls' = date_calls + 1
Uncounted(A) == A /\ UNCHANGED date_calls

Times == 0..MaxTime
EndTimes == (MaxTime + 1)..(MaxTime + OneDay)

\* dependency graph: construction (with no or one dependency), addDependency,
\* removeDependency, at most MaxDepEdges depends entries at a time
NewPlainTask ==
    \E deps \in {<<>>} \cup {<<o>> : o \in Ids} :
        /\ DepEdges + Len(deps) <= MaxDepEdges
        /\ NewTask(AProject, None, deps, 0, OneDay, 0, FALSE, {}, DefaultPriority)
AddDependencyAny == \E t, o \in Ids : AddDependency(t, o)
RemoveDependencyAny == \E t, o \in Ids : RemoveDependency(t, o)

NextDeps == \/ Uncounted(NewPlainTask) \/ Uncounted(AddDependencyAny)
            \/ Uncounted(RemoveDependencyAny)

SpecDeps == Init /\ [][NextDeps]_vars

\* parent tree: construction (with a parent), setParent, child removal
NewTaskInTree == \E p \in Ids \cup {None} : NewTask(AProject, p, <<>>, 0, OneDay, 0, FALSE, {}, DefaultPriority)
SetParentAny == \E t \in Ids, p \in Ids \cup {None} : SetParent(t, p)
RemoveChildAny == \E p, c \in Ids : RemoveChild(p, c)

NextTree == \/ Uncounted(NewTaskInTree) \/ Uncounted(SetParentAny)
            \/ Uncounted(RemoveChildAny)

SpecTree == Init /\ [][NextTree]_vars

\* parent tree with resources: as above, plus construction with resources and
\* resource add / remove / assign, at most MaxAssigned assignments at a time
Assigned == LET RECURSIVE Sum(_)
                Sum(S) == IF S = {} THEN 0
                          ELSE LET x == CHOOSE y \in S : TRUE
                               IN  Cardinality(resources[x]) + Sum(S \ {x})
            IN  Sum(Ids)

NewTaskWithResources ==
    \E p \in Ids \cup {None}, rs0 \in SUBSET Users :
        /\ Assigned + Cardinality(rs0) <= MaxAssigned
        /\ NewTask(AProject, p, <<>>, 0, OneDay, 0, FALSE, rs0, DefaultPriority)
AddResourceAny == \E t \in Ids, u \in Users :
                      Assigned < MaxAssigned /\ AddResource(t, u)
RemoveResourceAny == \E t \in Ids, u \in Users : RemoveResource(t, u)
AssignResourcesAny ==
    \E t \in Ids, us \in SUBSET Users :
        /\ Assigned - Cardinality(resources[t]) + Cardinality(us) <= MaxAssigned
        /\ AssignResources(t, us)

NextRes == \/ Uncounted(NewTaskWithResources) \/ Uncounted(SetParentAny)
           \/ Uncounted(RemoveChildAny) \/ Uncounted(AddResourceAny)
           \/ Uncounted(RemoveResourceAny) \/ Uncounted(AssignResourcesAny)

SpecRes == Init /\ [][NextRes]_vars

\* parent tree with dates: construction (with a parent), setParent, and at
\* most MaxDateCalls writes to a task's start (in Times) and end (in EndTimes)
\* and reads of start and end
SetStartAny == \E t \in Ids, v \in Times : SetStart(t, v)
SetEndAny == \E t \in Ids, v \in EndTimes : SetEnd(t, v)
ReadStartAny == \E t \in Ids : ReadStart(t)
ReadEndAny == \E t \in Ids : ReadEnd(t)

NextDates == \/ Uncounted(NewTaskInTree) \/ Uncounted(SetParentAny)
             \/ Counted(SetStartAny) \/ Counted(SetEndAny)
             \/ Counted(ReadStartAny) \/ Counted(ReadEndAny)

SpecDates == Init /\ [][NextDates]_vars

\* container writes: trees built by construction alone (each task at a start
\* in Times, under any earlier task or none), and writes to start and end of
\* the tasks that have children
NewTaskAt ==
    \E p \in Ids \cup {None}, start \in Times :
        NewTask(AProject, p, <<>>, start, OneDay, 0, FALSE, {}, DefaultPriority)
WriteContainerStart ==
    \E t \in Ids, v \in Times \cup EndTimes :
        is_container(children, t) /\ SetStart(t, v)
WriteContainerEnd ==
    \E t \in Ids, v \in Times \cup EndTimes :
        is_container(children, t) /\ SetEnd(t, v)

NextSpan == \/ Uncounted(NewTaskAt) \/ Uncounted(WriteContainerStart)
            \/ Uncounted(WriteContainerEnd)

SpecSpan == Init /\ [][NextSpan]_vars

\* one leaf task and its schedule: construction with any resources and
\* either an effort or a duration, writes to effort, duration, start and end,
\* resource add / remove.  (A leaf's schedule reads no other task.)
EffortsIn == (0 - 1)..MaxEffort
DurationsIn == (0 - 1)..MaxEffort

NewLeafWithEffort ==
    \E rs0 \in SUBSET Users, e \in EffortsIn :
        ntasks = 0 /\ NewTask(AProject, None, <<>>, 0, OneDay, e, TRUE, rs0, DefaultPriority)
NewLeafWithDuration ==
    \E rs0 \in SUBSET Users, d \in DurationsIn :
        ntasks = 0 /\ NewTask(AProject, None, <<>>, 0, d, 0, FALSE, rs0, DefaultPriority)
SetEffortAny == \E t \in Ids, e \in EffortsIn : SetEffort(t, e)
SetDurationAny == \E t \in Ids, d \in DurationsIn : SetDuration(t, d)
SetEffortNoneAny == \E t \in Ids : SetEffortNone(t)
SetDurationNoneAny == \E t \in Ids : SetDurationNone(t)
AddAnyResource == \E t \in Ids, u \in Users : AddResource(t, u)
SetLeafStart == \E t \in Ids, v \in Times : SetStart(t, v)
SetLeafEnd == \E t \in Ids, v \in Times \cup EndTimes : SetEnd(t, v)

NextEffort == \/ Uncounted(NewLeafWithEffort) \/ Uncounted(NewLeafWithDuration)
              \/ Uncounted(SetEffortAny) \/ Uncounted(SetDurationAny)
              \/ Uncounted(SetEffortNoneAny) \/ Uncounted(SetDurationNoneAny)
              \/ Uncounted(AddAnyResource) \/ Uncounted(RemoveResourceAny)
              \/ Uncounted(SetLeafStart) \/ Uncounted(SetLeafEnd)

SpecEffort == Init /\ [][NextEffort]_vars

\* one task and the bookings made for it: at most MaxBookings bookings, of any
\* task and resource argument (None and objects of other classes included),
\* over any interval with start <= end in BookTimes
BookTimes == 0..MaxBookTime

NewBookedTask ==
    ntasks = 0 /\ NewTask(AProject, None, <<>>, 0, OneDay, 0, FALSE, {}, DefaultPriority)
NewBookingAny ==
    /\ nbookings < MaxBookings
    /\ \E task \in Tasks \cup {None, Other}, resource \in Users \cup {None, Other},
          start \in BookTimes, end \in BookTimes :
        /\ start <= end
        /\ NewBooking(task, resource, start, end)

NextBook == \/ Uncounted(NewBookedTask) \/ Uncounted(NewBookingAny)

SpecBook == Init /\ [][NextBook]_vars

\* priorities: construction with, and writes of, integers below, inside and
\* above [0, 1000], floats, digit strings, other strings, None and infinity
PriorityInputs ==
    {[kind |-> "int", n |-> i] : i \in {0 - 5, 0, 1, 1000, 1001, 5000}}
    \cup {[kind |-> "float", n |-> h] : h \in {0 - 3, 0 - 1, 3, 2001}}
    \cup {[kind |-> "str", n |-> i] : i \in {0 - 5, 7}}
    \cup {[kind |-> k, n |-> 0] : k \in {"text", "none", "inf"}}

NewTaskWithPriority ==
    \E prio \in PriorityInputs :
        NewTask(AProject, None, <<>>, 0, OneDay, 0, FALSE, {}, prio)
SetPriorityAny == \E t \in Ids, prio \in PriorityInputs : SetPriority(t, prio)

NextPriority == \/ Uncounted(NewTaskWithPriority) \/ Uncounted(SetPriorityAny)

SpecPriority == Init /\ [][NextPriority]_vars

\* projects: construction with any parent and any project argument (None and
\* objects of other classes included)
ProjectArgs == Projects \cup {None, Other}

NewTaskInProject ==
    \E proj \in ProjectArgs, p \in Ids \cup {None} :
        NewTask(proj, p, <<>>, 0, OneDay, 0, FALSE, {}, DefaultPriority)

NextProject == Uncounted(NewTaskInProject)

SpecProject == Init /\ [][NextProject]_vars

\* the owner project over a task's life: tasks built in any project, then
\* MaxDateCalls later calls: re-parenting (under a task of any project, None
\* or an object of another class), writes of the project attribute, and
\* dependency, resource and date writes
NewTaskOfProject ==
    /\ ntasks < MaxMoved
    /\ \E proj \in Projects :
          NewTask(proj, None, <<>>, 0, OneDay, 0, FALSE, {}, DefaultPriority)

SetParentToAny == \E t \in Ids, p \in Ids \cup {None, Other} : SetParent(t, p)
SetProjectAny == \E t \in Ids, q \in ProjectArgs : SetProject(t, q)

NextOwner == \/ Uncounted(NewTaskOfProject) \/ Counted(SetParentToAny)
             \/ Counted(SetProjectAny) \/ Counted(AddDependencyAny)
             \/ Counted(AddResourceAny) \/ Counted(SetStartAny)

SpecOwner == Init /\ [][NextOwner]_vars

\* both relations at once: construction, addDependency and setParent with any
\* task arguments
NextGraph == \/ Uncounted(NewPlainTask) \/ Uncounted(AddDependencyAny)
             \/ Uncounted(SetParentAny)

SpecGraph == Init /\ [][NextGraph]_vars

\* arguments of the wrong type: tasks, then MaxDateCalls calls of setParent,
\* addDependency and addResource whose argument is a task or a user, None or
\* an object of another class
NewBareTask ==
    /\ ntasks < MaxMoved
    /\ NewTask(AProject, None, <<>>, 0, OneDay, 0, FALSE, {}, DefaultPriority)

AddDependencyOfAny ==
    \E t \in Ids, o \in Ids \cup {None, Other} : AddDependency(t, o)
AddResourceOfAny ==
    \E t \in Ids, u \in Users \cup {None, Other} : AddResource(t, u)

NextType == \/ Uncounted(NewBareTask) \/ Counted(SetParentToAny)
            \/ Counted(AddDependencyOfAny) \/ Counted(AddResourceOfAny)

SpecType == Init /\ [][NextType]_vars

\* milestones: tasks built with or without the flag and with any resources,
\* then writes of the flag and more resources
NewTaskMaybeMilestone ==
    /\ ntasks < MaxMoved
    /\ \E rs0 \in SUBSET Users, m \in BOOLEAN :
          Task_init(AProject, None, <<>>, 0, OneDay, 0, FALSE, rs0,
                    DefaultPriority, m)

SetMilestoneAny == \E t \in Ids, m \in BOOLEAN : SetMilestone(t, m)

NextMilestone == \/ Uncounted(NewTaskMaybeMilestone)
                 \/ Uncounted(SetMilestoneAny) \/ Uncounted(AddResourceAny)

SpecMilestone == Init /\ [][NextMilestone]_vars

\* bookings given by start and duration: one task, then bookings of any user
\* whose end is left to the reconciliation of the dates
BookLengths == 0..MaxBookTime

NewBookingOfLength ==
    /\ nbookings < MaxBookings
    /\ \E task \in Tasks, resource \in Users, start \in BookTimes,
          duration \in BookLengths :
        /\ start + duration <= MaxBookTime
        /\ Booking_init(task, resource, start, None, duration,
                        {"start", "duration"})

NextBookLength == \/ Uncounted(NewBookedTask) \/ Uncounted(NewBookingOfLength)

SpecBookLength == Init /\ [][NextBookLength]_vars

\* every operation, every argument
Next == \/ Uncounted(NewTaskWithResources) \/ Uncounted(NewLeafWithEffort)
        \/ Uncounted(NewLeafWithDuration)
        \/ Uncounted(AddDependencyAny) \/ Uncounted(RemoveDependencyAny)
        \/ Uncounted(SetParentAny) \/ Uncounted(RemoveChildAny)
        \/ Uncounted(AddResourceAny) \/ Uncounted(RemoveResourceAny)
        \/ Uncounted(AssignResourcesAny)
        \/ Uncounted(SetEffortAny) \/ Uncounted(SetDurationAny)
        \/ Uncounted(SetEffortNoneAny) \/ Uncounted(SetDurationNoneAny)
        \/ Counted(SetStartAny) \/ Counted(SetEndAny)
        \/ Counted(ReadStartAny) \/ Counted(ReadEndAny)
        \/ Uncounted(NewTaskInProject) \/ Uncounted(NewTaskWithPriority)
        \/ Uncounted(SetPriorityAny) \/ Uncounted(NewBookingAny)
        \/ Uncounted(NewTaskOfProject) \/ Uncounted(SetParentToAny)
        \/ Uncounted(SetProjectAny) \/ Uncounted(NewBareTask)
        \/ Uncounted(NewTaskMaybeMilestone) \/ Uncounted(SetMilestoneAny)
        \/ Uncounted(NewBookingOfLength)
        \/ Uncounted(AddDependencyOfAny) \/ Uncounted(AddResourceOfAny)

Spec == Init /\ [][Next]_vars

\* ------------------------------------------------- reachability (for claims)
Succ(rel, S) == UNION {Range(rel[x]) : x \in S}

RECURSIVE ReachFrom(_, _, _)
ReachFrom(rel, frontier, seen) ==
    LET nxt == Succ(rel, frontier) \ seen
    IN  IF nxt = {} THEN seen ELSE ReachFrom(rel, nxt, seen \cup nxt)

\* the tasks met by following one or more rel edges from t
Reach(rel, t) == ReachFrom(rel, {t}, {})

ParentRel == [t \in Ids |-> IF parent[t] = None THEN <<>> ELSE <<parent[t]>>]
Ancestors(t) == Reach(ParentRel, t)

IsCall(c, op, t, a) == c.op = op /\ c.t = t /\ c.a = a

\* ------------------------------------------------------------------ claims
\* C1: in every state reachable by constructing tasks and calling
\* addDependency / removeDependency with any task arguments, no task reaches
\* itself by following one or more depends edges.
C1_DependsAcyclic == \A t \in Tasks : t \notin Reach(depends, t)

\* C3: for distinct tasks T and O with T reachable from O over depends edges,
\* addDependency(T, O) fails with CircularDependencyError and leaves every
\* depends list and the reverse index unchanged.
C3_DependsCycleRejected ==
    [][\A t, o \in Ids :
         (/\ t \in Tasks /\ o \in Tasks /\ t # o
          /\ t \in Reach(depends, o)
          /\ IsCall(last', "addDependency", t, o))
         => /\ last'.res = "CircularDependencyError"
            /\ UNCHANGED <<depends, dependent_of>>]_vars

\* C5: for every task T, addDependency(T, T) fails with
\* CircularDependencyError and T.depends is unchanged.
C5_SelfDependencyRejected ==
    [][\A t \in Ids :
         (t \in Tasks /\ IsCall(last', "addDependency", t, t))
         => /\ last'.res = "CircularDependencyError"
            /\ depends'[t] = depends[t]]_vars

\* C2: in every state reachable by constructing tasks and calling setParent
\* with any task arguments, no task is reachable from itself by following one
\* or more parent links.
C2_ParentAcyclic == \A t \in Tasks : t \notin Ancestors(t)

\* C4: if A is an ancestor of B in the parent tree, setParent(A, B) fails with
\* CircularDependencyError and leaves every parent and children unchanged.
C4_ParentCycleRejected ==
    [][\A a, b \in Ids :
         (/\ a \in Tasks /\ b \in Tasks
          /\ a \in Ancestors(b)
          /\ IsCall(last', "setParent", a, b))
         => /\ last'.res = "CircularDependencyError"
            /\ UNCHANGED <<parent, children>>]_vars

\* C8: in every state reachable by setParent, child removal and resource
\* add / remove / assign, every task with at least one child has an empty
\* resources set.
C8_ContainerHasNoResources ==
    \A t \in Tasks : is_container(children, t) => resources[t] = {}

\* C10: whenever setParent(Y, X) is accepted, or Y is constructed with
\* parent = X, and X had a non-empty resources set, X.resources is empty
\* afterwards.
C10_ParentResourcesReset ==
    [][\A y, x \in Ids :
         (/\ \/ IsCall(last', "setParent", y, x) /\ last'.res = "ok" /\ y \in Tasks
             \/ IsCall(last', "construct", y, x) /\ ntasks' = y /\ ntasks = y - 1
          /\ resources[x] # {})
         => resources'[x] = {}]_vars

\* C9: in every reachable state, reading start on a task with children
\* returns the minimum start over its children and reading end returns the
\* maximum end over its children (so also right after a child is assigned or
\* a descendant leaf's dates change, for the new parent and every ancestor).
MinOf(S) == CHOOSE v \in S : \A w \in S : v <= w
MaxOf(S) == CHOOSE v \in S : \A w \in S : v >= w

C9_ContainerSpanFromChildren ==
    \A t \in Tasks :
        is_container(children, t) =>
            LET rs == start_getter(children, sched, t)
                re == end_getter(children, sched, t)
                kids == Range(children[t])
            IN  /\ rs.ok /\ re.ok
                /\ \A c \in kids : /\ start_getter(children, sched, c).ok
                                   /\ end_getter(children, sched, c).ok
                /\ rs.val = MinOf({start_getter(children, sched, c).val : c \in kids})
                /\ re.val = MaxOf({end_getter(children, sched, c).val : c \in kids})

\* C6: for every leaf task, after construction and after every write to
\* effort or to duration, effort == duration * max(1, |resources|).
C6_EffortMatchesDuration ==
    \A t \in Tasks :
        (/\ last.op \in {"construct", "setEffort", "setDuration",
                        "setEffortNone", "setDurationNone"}
         /\ last.t = t
         /\ is_leaf(children, t))
        => /\ last.res = "ok"
           /\ sched[t].effort = sched[t].duration * num_of_resources(resources, t)

\* C6 witness: effort 3 written on a leaf with two resources: the duration
\* is floor(3 / 2) = 1 and the effort settles at 1 * 2
C6_Witness ==
    \E t \in Tasks :
        /\ IsCall(last, "setEffort", t, 3)
        /\ Cardinality(resources[t]) = 2
        /\ sched[t].duration = 1 /\ sched[t].effort = 2

\* C7: adding or removing a resource on a leaf task leaves effort unchanged and
\* recomputes duration to effort / max(1, new |resources|), so that
\* effort == duration * max(1, |resources|) holds afterwards.
C7_ResourceChangeRecomputesDuration ==
    [][\A t \in Ids, u \in Users :
         (/\ t \in Tasks /\ is_leaf(children, t)
          /\ IsCall(last', "addResource", t, u) \/ IsCall(last', "removeResource", t, u)
          /\ resources'[t] # resources[t])
         => /\ sched'[t].effort = sched[t].effort
            /\ sched'[t].duration = sched'[t].effort \div num_of_resources(resources', t)
            /\ sched'[t].effort = sched'[t].duration * num_of_resources(resources', t)]_vars

\* what reading start and end of task u gives in store s over the tree ch:
\* whether each read returns, and the value when it does
Reads(ch, s, u) ==
    LET rs == start_getter(ch, s, u)
        re == end_getter(ch, s, u)
    IN  [startOk |-> rs.ok, start |-> IF rs.ok THEN rs.val ELSE 0,
         endOk |-> re.ok, end |-> IF re.ok THEN re.val ELSE 0]

\* C11: a write to start or to end of a task that has at least one child
\* raises no error, and what is read afterwards as start and end of that task
\* and of every other task is what was read before the write.
C11_ContainerDateWriteIgnored ==
    [][\A t \in Ids :
         (/\ t \in Tasks /\ is_container(children, t)
          /\ last'.op \in {"setStart", "setEnd"} /\ last'.t = t)
         => /\ last'.res = "ok"
            /\ \A u \in Tasks :
                   Reads(children', sched', u) = Reads(children, sched, u)]_vars

\* C11 witness: start = 1 was written on a container whose only child starts
\* at 0, and the container still reads 0
C11_Witness ==
    \E t \in Tasks :
        /\ IsCall(last, "setStart", t, 1)
        /\ is_container(children, t) /\ parent[t] # t
        /\ Reads(children, sched, t).startOk
        /\ Reads(children, sched, t).start = 0

\* C12: for every task, reading start and end twice in a row returns the
\* same values both times, and the second pair of reads leaves the stored
\* dates as the first pair left them.
C12_ReadTwiceSame ==
    \A t \in Tasks :
        LET s1 == start_getter(children, sched, t)
            e1 == end_getter(children, s1.s, t)
            s2 == start_getter(children, e1.s, t)
            e2 == end_getter(children, s2.s, t)
        IN  /\ s1.ok /\ e1.ok /\ s2.ok /\ e2.ok
            /\ s2.val = s1.val /\ e2.val = e1.val
            /\ e2.s = e1.s

\* the bookings recorded for resource r before the call of this step
BookingsOf(r) == {b \in 1..nbookings : booking[b].resource = r}

\* the call of this step recorded a booking (the constructor returned)
Booked == last'.op = "book" /\ last'.res = "ok"

\* C13: whenever a booking [s1, e1) is recorded for a resource that already
\* has a booking [s2, e2) with s1 < e2 and s2 < e1 (both intervals of positive
\* length), an OverBooked advisory about that booking is emitted.
C13_OverlapAlwaysFlagged ==
    [][Booked =>
         LET self == last'.val IN
         \A b \in BookingsOf(last'.a) :
             (/\ booking'[self].start < booking'[self].end
              /\ booking[b].start < booking[b].end
              /\ booking'[self].start < booking[b].end
              /\ booking[b].start < booking'[self].end)
             => OverBookedWarning(b) \in warned']_vars

OverlapRule(s1, e1, s2, e2) ==
    s1 = s2 \/ e1 = e2 \/ (s2 < e1 /\ e1 < e2) \/ (s2 < s1 /\ s1 < e2)

\* the call of this step is Booking(task, resource, start, end) with a task,
\* a user and start <= end
BookingCall ==
    /\ last'.op = "book" /\ last'.t \in Tasks /\ last'.a \in Users
    /\ given'.start <= given'.end

\* C15: when recording a booking triggers OverBooked, the operation still
\* succeeds: the new booking is in the resource's bookings and in the task's
\* bookings afterwards, and every earlier booking is as it was.
C15_OverBookedStillRecorded ==
    [][(/\ BookingCall
        /\ \E b \in BookingsOf(last'.a) :
               OverlapRule(given'.start, given'.end,
                           booking[b].start, booking[b].end))
       => LET self == nbookings + 1 IN
          /\ last'.res = "ok" /\ warned' # {}
          /\ nbookings' = self
          /\ booking'[self] = [task |-> last'.t, resource |-> last'.a,
                               start |-> given'.start, end |-> given'.end]
          /\ user_bookings' = [user_bookings EXCEPT ![last'.a] = Append(@, self)]
          /\ task_bookings' = [task_bookings EXCEPT ![last'.t] = Append(@, self)]
          /\ \A b \in 1..nbookings : booking'[b] = booking[b]]_vars

\* C15 witness: the second booking of a resource starts when the first one
\* does, an advisory is out, and both bookings are in the resource's list
C15_Witness ==
    /\ last.op = "book" /\ last.res = "ok" /\ last.val = 2
    /\ warned = {OverBookedWarning(1)}
    /\ booking[1].start = booking[2].start
    /\ user_bookings[last.a] = <<1, 2>>
    /\ task_bookings[last.t] = <<1, 2>>

\* C16 (as stated): recording a booking whose start equals the end of an
\* existing booking of the same resource yields an OverBooked advisory about
\* that booking.
C16_TouchingFlagged ==
    [][Booked =>
         \A b \in BookingsOf(last'.a) :
             booking[b].end = booking'[last'.val].start
             => OverBookedWarning(b) \in warned']_vars

\* C16 (amended): recording a booking of positive length whose start equals
\* the end of an existing booking of positive length of the same resource
\* yields no OverBooked advisory about that booking.
C16_TouchingNotFlagged ==
    [][Booked =>
         LET self == last'.val IN
         \A b \in BookingsOf(last'.a) :
             (/\ booking[b].end = booking'[self].start
              /\ booking[b].start < booking[b].end
              /\ booking'[self].start < booking'[self].end)
             => OverBookedWarning(b) \notin warned']_vars

\* C16 witness: [1, 2) then [2, 3) for the same resource, no advisory
C16_Witness ==
    /\ last.op = "book" /\ last.res = "ok" /\ last.val = 2
    /\ booking[1].resource = booking[2].resource
    /\ booking[1].start < booking[1].end
    /\ booking[1].end = booking[2].start
    /\ booking[2].start < booking[2].end
    /\ warned = {}

\* C17: constructing a Booking whose task is no Task, or whose resource is
\* None or no User, fails with TypeError, and no OverBooked advisory is
\* emitted.
C17_BookingTypeChecked ==
    [][(last'.op = "book" /\ (last'.t \notin Tasks \/ last'.a \notin Users))
       => last'.res = "TypeError" /\ warned' = {}]_vars

\* C17 witness: a booking with an object that is no Task was refused although
\* its resource already had a booking starting at the same time
C17_Witness ==
    /\ last.op = "book" /\ last.res = "TypeError"
    /\ last.t = Other /\ last.a \in Users
    /\ \E b \in BookingsOf(last.a) : booking[b].start = given.start
    /\ warned = {}

\* C18: in every reachable state every task's priority is an integer in
\* [0, 1000], and no write to priority (by the constructor or by assignment,
\* of any integer, non-integer or non-numeric value) raises an error.
C18_PriorityInRangeNeverRaises ==
    /\ \A t \in Tasks : priority[t] \in 0..1000
    /\ last.op \in {"construct", "setPriority"} => last.res = "ok"

\* C19: for every value p written to priority the stored value is 0 if
\* int(p) < 0, 1000 if int(p) > 1000, int(p) if 0 <= int(p) <= 1000, and the
\* default priority if p cannot be converted to an integer.
Convertible(p) == p.kind \in {"int", "float", "str"}
IntOf(p) == IF p.kind = "float" THEN Trunc(p.n) ELSE p.n

C19_PriorityClamped ==
    [][last'.op \in {"construct", "setPriority"} =>
         LET p == given'.priority
             stored == priority'[last'.t]
         IN  IF ~Convertible(p) THEN stored = TASK_PRIORITY
             ELSE IF IntOf(p) < 0 THEN stored = 0
             ELSE IF IntOf(p) > 1000 THEN stored = 1000
             ELSE stored = IntOf(p)]_vars

\* C20: constructing a task with a parent P and no explicit project yields a
\* task whose project is P's project.
C20_ProjectInherited ==
    [][(/\ last'.op = "construct" /\ last'.res = "ok"
        /\ last'.a # None /\ given'.project = None)
       => /\ project'[last'.t] = project[last'.a]
          /\ project'[last'.a] = project[last'.a]]_vars

\* C20 witness: a task constructed with a parent and no project, where the
\* parent was constructed in a project other than the first
C20_Witness ==
    /\ last.op = "construct" /\ last.res = "ok"
    /\ last.a # None /\ given.project = None
    /\ project[last.a] # AProject
    /\ project[last.a] \in Projects
    /\ project[last.t] = project[last.a]

\* C21: constructing a task with a project Q and a parent P whose project is
\* not Q succeeds, emits exactly one warning, and yields a task whose project
\* is P's project and which is a child of P.
C21_MismatchWarnsAndInherits ==
    [][(/\ last'.op = "construct" /\ last'.a # None
        /\ given'.project \in Projects
        /\ project[last'.a] # given'.project)
       => /\ last'.res = "ok"
          /\ warned' = {ProjectWarning}
          /\ project'[last'.t] = project[last'.a]
          /\ parent'[last'.t] = last'.a
          /\ last'.t \in Range(children'[last'.a])]_vars

\* C21 witness: a task constructed in one project under a parent that is in
\* another project
C21_Witness ==
    /\ last.op = "construct" /\ last.res = "ok" /\ last.a # None
    /\ given.project \in Projects
    /\ project[last.a] \in Projects
    /\ project[last.a] # given.project
    /\ project[last.t] = project[last.a]
    /\ warned = {ProjectWarning}

\* C22: every task that exists has a project, and a construction with neither
\* a project nor a parent is refused and creates no task.
C22_EveryTaskHasProject ==
    [][/\ \A t \in 1..ntasks' : project'[t] \in Projects
       /\ (/\ last'.op = "construct" /\ last'.a = None
           /\ given'.project = None)
          => (last'.res = "TypeError" /\ ntasks' = ntasks)]_vars

\* C23: a task's project is fixed at construction: no later operation
\* (re-parenting under a task of any project, dependency, resource and date
\* writes, attempts to write the project attribute) changes it.
C23_ProjectFixed ==
    [][\A t \in Tasks : project'[t] = project[t]]_vars

\* C23 witness: a task was moved under a parent of another project and is
\* still in the project it was constructed in
C23_Witness ==
    /\ last.op = "setParent" /\ last.res = "ok" /\ last.a \in Tasks
    /\ parent[last.t] = last.a
    /\ project[last.t] \in Projects /\ project[last.a] \in Projects
    /\ project[last.t] # project[last.a]

\* C24: a cycle is the only reason a structural mutation between tasks is
\* refused: setParent(T, P) with P a task other than T that is not a
\* descendant of T, and addDependency(T, O) with O a task other than T from
\* which T is not reachable over depends edges, are accepted and take effect.
C24_OnlyCyclesRefused ==
    [][/\ (/\ last'.op = "setParent" /\ last'.a \in Tasks
           /\ last'.a # last'.t
           /\ last'.a \notin Reach(children, last'.t))
          => (last'.res = "ok" /\ parent'[last'.t] = last'.a)
       /\ (/\ last'.op = "addDependency" /\ last'.a \in Tasks
           /\ last'.a # last'.t
           /\ last'.t \notin Reach(depends, last'.a))
          => (last'.res = "ok" /\ last'.a \in Range(depends'[last'.t]))]_vars

\* C25: a type error aborts only the assignment that raised it: setParent with
\* a value that is neither None nor a task, addDependency with a value that is
\* no task and adding a value that is no user to resources each raise
\* TypeError and leave parent, children, depends, resources, effort and dates
\* as they were.
C25_TypeErrorChangesNothing ==
    [][/\ (last'.op = "setParent" /\ last'.a = Other)
          => last'.res = "TypeError"
       /\ (last'.op = "addDependency" /\ last'.a \in {None, Other})
          => last'.res = "TypeError"
       /\ (last'.op = "addResource" /\ last'.a \notin Users)
          => last'.res = "TypeError"
       /\ (/\ last'.op \in {"setParent", "addDependency", "addResource"}
           /\ last'.res = "TypeError")
          => UNCHANGED <<parent, children, depends, dependent_of, resources,
                         sched>>]_vars

\* C25 witness: a task that has a parent was given a parent of the wrong type
\* and kept the one it had
C25_Witness ==
    /\ last.op = "setParent" /\ last.a = Other /\ last.res = "TypeError"
    /\ parent[last.t] \in Tasks
    /\ last.t \in Range(children[parent[last.t]])

\* C26: every write to effort or to duration of a task returns: the effort
\* setter and the duration setter stop calling each other after finitely many
\* rounds, for every effort value and every number of resources (efforts that
\* the number of resources does not divide included).
C26_EffortDurationSettles ==
    last.op \in {"construct", "setEffort", "setDuration", "setEffortNone",
                 "setDurationNone"}
    => last.res # "RecursionError"

\* C26 witness: an effort that the number of resources does not divide was
\* written and the call returned with another effort stored
C26_Witness ==
    /\ last.op = "setEffort" /\ last.res = "ok"
    /\ Cardinality(resources[last.t]) = 2
    /\ last.a % 2 = 1
    /\ sched[last.t].effort # last.a

\* C27: the cycle check never runs for ever: in every graph reachable through
\* setParent and addDependency with any task arguments, a cycle check for
\* either kind of edge, on any pair of tasks, ends with acceptance or with
\* CircularDependencyError.
C27_CycleCheckTerminates ==
    \A t, o \in Tasks :
        /\ validate_depends(t, o) \in {"ok", "CircularDependencyError"}
        /\ validate_parent(t, o) \in {"ok", "CircularDependencyError"}

\* C28: a task constructed with is_milestone true has no resources when the
\* construction finishes, whatever resources were passed.
C28_MilestoneBuiltWithoutResources ==
    [][(/\ last'.op = "construct" /\ last'.res = "ok"
        /\ given'.milestone)
       => /\ resources'[last'.t] = {}
          /\ is_milestone'[last'.t]]_vars

\* C28 witness: a milestone constructed with resources passed
C28_Witness ==
    /\ last.op = "construct" /\ last.res = "ok"
    /\ given.milestone /\ given.resources # {}
    /\ is_milestone[last.t] /\ resources[last.t] = {}

\* C29 as stated: setting is_milestone to true on a constructed task that has
\* resources leaves its resources unchanged.
C29_MilestoneWriteKeepsResources ==
    [][(/\ last'.op = "setMilestone" /\ given'.milestone
        /\ resources[last'.t] # {})
       => resources'[last'.t] = resources[last'.t]]_vars

\* C29 amended: setting is_milestone to true on a constructed task that has
\* resources empties its resources (every write of a true value strips them,
\* not only the one made at construction); the resources of the other tasks
\* are unchanged.
C29_MilestoneWriteStripsResources ==
    [][(/\ last'.op = "setMilestone" /\ given'.milestone
        /\ resources[last'.t] # {})
       => /\ resources'[last'.t] = {}
          /\ is_milestone'[last'.t]
          /\ \A o \in Tasks \ {last'.t} : resources'[o] = resources[o]]_vars

\* C29 witness: a task that had resources was made a milestone and has none
C29_Witness ==
    /\ last.op = "setMilestone" /\ given.milestone
    /\ given.resources # {}
    /\ is_milestone[last.t] /\ resources[last.t] = {}

\* C30: after any sequence of addDependency and removeDependency calls, for
\* all tasks A and B: B is in A.depends if and only if A is in the reverse
\* index of B (the tasks that depend on B).
C30_ReverseIndexMatches ==
    \A a, b \in Tasks : b \in Range(depends[a]) <=> a \in dependent_of[b]

\* C30 witness: a dependency was removed while another task still depends on
\* the same task
C30_Witness ==
    /\ last.op = "removeDependency"
    /\ last.a \notin Range(depends[last.t])
    /\ last.t \notin dependent_of[last.a]
    /\ dependent_of[last.a] # {}

\* C31: after any sequence of setParent and child removals, for all tasks C
\* and P: C.parent is P if and only if C is in P.children; a task moved from
\* P1 to P2 is in P2.children and no longer in P1.children, and every task is
\* in at most one children list, once.
C31_ParentChildrenInverse ==
    /\ \A c, p \in Tasks : parent[c] = p <=> c \in Range(children[p])
    /\ \A c \in Tasks :
          Cardinality({p \in Tasks : c \in Range(children[p])}) <= 1
    /\ \A p \in Tasks : Cardinality(Range(children[p])) = Len(children[p])

\* C31 witness: setParent put a task under another task that already had a
\* child; it is the second of that task's children
C31_Witness ==
    /\ last.op = "setParent" /\ last.res = "ok"
    /\ last.a \in Tasks /\ last.a # last.t
    /\ parent[last.t] = last.a
    /\ Len(children[last.a]) = 2
    /\ children[last.a][2] = last.t

\* C32: in every reachable state, for every task with at least one child, the
\* duration read from it equals end - start of the end and start derived from
\* its children.
C32_ContainerDurationIsSpan ==
    \A t \in Tasks :
        is_container(children, t) =>
            LET rs == start_getter(children, sched, t)
                re == end_getter(children, sched, t)
            IN  (rs.ok /\ re.ok)
                => duration_getter(sched, t) = re.val - rs.val

\* C33: for every leaf task, after a write to start or to end that changes its
\* duration, effort == duration * max(1, |resources|).
C33_DateWriteRecomputesEffort ==
    [][\A t \in Tasks :
         (/\ last'.op \in {"setStart", "setEnd"} /\ last'.t = t
          /\ is_leaf(children, t)
          /\ sched'[t].duration # sched[t].duration)
         => sched'[t].effort
              = sched'[t].duration * num_of_resources(resources, t)]_vars

\* C34: a Booking construction that fails with TypeError on its resource (None
\* or no user) commits nothing: the bookings of the task passed and of every
\* user are as before the attempt.
C34_RefusedBookingCommitsNothing ==
    [][(/\ last'.op = "book" /\ last'.res = "TypeError"
        /\ last'.t \in Tasks /\ last'.a \notin Users)
       => UNCHANGED <<task_bookings, user_bookings>>]_vars

\* C35: a Task construction that fails with TypeError because the project
\* passed is no Project, while a task P was passed as parent, commits
\* nothing: P.children and P.resources are as before the attempt.
C35_RefusedTaskCommitsNothing ==
    [][(/\ last'.op = "construct" /\ last'.res = "TypeError"
        /\ last'.a \in Tasks /\ given'.project = Other)
       => /\ children'[last'.a] = children[last'.a]
          /\ resources'[last'.a] = resources[last'.a]]_vars

\* C36: when a booking is recorded, its dates are reconciled before the
\* overlap scan: for a booking given by start and duration the interval
\* stored and compared with the resource's existing bookings is
\* [start, start + duration), not the arguments as passed (no end).
C36_ScanUsesReconciledDates ==
    [][(Booked /\ given'.known = {"start", "duration"})
       => LET self == last'.val
              s1   == given'.start
              e1   == given'.start + given'.duration
          IN  /\ booking'[self].start = s1
              /\ booking'[self].end = e1
              /\ warned' = {OverBookedWarning(b) : b \in
                              {c \in BookingsOf(last'.a) :
                                  OverlapRule(s1, e1, booking[c].start,
                                              booking[c].end)}}]_vars

\* C36 witness: a booking given by start and duration is flagged against an
\* earlier one of the same resource only because of its derived end
C36_Witness ==
    /\ last.op = "book" /\ last.res = "ok" /\ last.val = 2
    /\ given.known = {"start", "duration"}
    /\ booking[1].resource = last.a
    /\ booking[2].end = given.start + given.duration
    /\ booking[2].end = booking[1].end
    /\ booking[2].start < booking[1].start
    /\ warned = {OverBookedWarning(1)}

\* C37: in every reachable state, every task that has a parent is in the
\* project of its parent, also after setParent moved it under a parent of
\* another project.
C37_ChildInParentsProject ==
    \A t \in Tasks :
        parent[t] \in Tasks => project[t] = project[parent[t]]

\* C38: overbooking detection does not depend on the order of recording: when
\* a booking Y is recorded for a resource that has a booking X (both of
\* positive length), a warning about X is emitted if and only if recording X
\* with Y already there would have emitted one.
C38_OverBookedOrderIndependent ==
    [][Booked =>
         LET y == booking'[last'.val] IN
         \A b \in BookingsOf(last'.a) :
             LET x == booking[b] IN
             (x.start < x.end /\ y.start < y.end)
             => (OverBookedWarning(b) \in warned'
                   <=> overbooked(y.start, y.end, x.start, x.end))]_vars

\* C39: reading start or end changes nothing that is read later: when a task
\* is moved under another parent or out of its parent, what is then read as
\* start, end and duration of every task is the same whether or not start or
\* end of some task was read just before the move.
C39_ReadsArePure ==
    [][last'.op = "setParent" /\ last'.res = "ok"
       => \A u \in Tasks :
              LET rs == start_getter(children, sched, u)
                  re == end_getter(children, sched, u)
              IN  /\ rs.ok
                     => \A t \in Tasks :
                            /\ Reads(children', rs.s, t) = Reads(children', sched', t)
                            /\ duration_getter(rs.s, t) = duration_getter(sched', t)
                  /\ re.ok
                     => \A t \in Tasks :
                            /\ Reads(children', re.s, t) = Reads(children', sched', t)
                            /\ duration_getter(re.s, t) = duration_getter(sched', t)]_vars

\* C40: after effort E (a positive duration) is written on a leaf task with
\* n = max(1, |resources|), effort reads E and duration reads E / n in integer
\* arithmetic, whether or not n divides E.
C40_EffortWrittenIsRead ==
    \A t \in Tasks :
        (/\ last.op = "setEffort" /\ last.t = t /\ last.a >= 1
         /\ is_leaf(children, t))
        => /\ last.res = "ok"
           /\ sched[t].effort = last.a
           /\ duration_getter(sched, t) = last.a \div num_of_resources(resources, t)

============================================================================
